---- MODULE Spec2Model ----
(***************************************************************************)
(* ConfigCore editor host: the compatibility-gated plugin pipeline of      *)
(* ConfigCore.py.  Pure functions (_parse_version, is_plugin_compatible)   *)
(* are operators checked under GateSpec and ParseSpec; the plugin host     *)
(* session (reload_plugins, install, uninstall) is the state machine Spec, *)
(* SessionSpec adds the open-folder button.  The installer, the manifest   *)
(* resolver, the path resolver, the loader and the config document are     *)
(* checked call by call under InstallSpec, CraftedInstallSpec,             *)
(* ResolverSpec, PathSpec, LoaderSpec and DocSpec.                         *)
(***************************************************************************)
EXTENDS Integers, Sequences, FiniteSets, TLC

VARIABLES
    g_manifest,   \* gate call: the manifest argument (a Python value)
    g_host,       \* gate call: the core_version argument (a Python value)
    g_result,     \* gate call: outcome of is_plugin_compatible, or NotCalled
    disk,         \* root name -> directory/file image on disk, or NoRoot
    sys_modules,  \* interpreter module cache: module name -> code, or NotImported
    pc,           \* position of the host: Ready / Resolving / PerRootEvaluation
    roots,        \* reload_plugins: the list find_plugins_paths returned
    idx,          \* reload_plugins: index of the next root to evaluate
    loaded,       \* reload_plugins: the local counter `loaded`
    plugin_tabs,  \* the tabs hosted in self.plugin_tabs, in order
    loader_calls, \* roots handed to import_plugin_module in the current reload
    status,       \* last status-bar message: [loaded, roots]
    installed_list, \* entries of self.installed_list
    writes,       \* number of changes made to the disk so far (bounded)
    message_box,  \* title of the message box the last handler showed
    i_pkg,        \* install call: the package_folder argument
    i_download,   \* install call: what urlopen(repo_url) yields
    i_fs,         \* install call: the entries under PACKAGES_DIR
    i_old,        \* install call: the entries under PACKAGES_DIR at the call
    i_tmp,        \* install call: the temporary snapshot file
    i_pc,         \* install call: position in install_package_from_github
    i_matched,    \* install call: the members of `matched` not yet extracted
    i_result,     \* install call: the value returned or the exception raised
    r_shape,      \* resolver call: "local" or "remote"
    r_plugin,     \* resolver call: plugin.json (a file, or an API response)
    r_manifest,   \* resolver call: manifest.json (a file, or an API response)
    r_result,     \* resolver call: outcome, or NotResolved
    pv_a,         \* version call: the string parsed
    pv_b,         \* version call: the string it is compared with
    pv_result,    \* version call: the two parsed tuples, or NotParsed
    p_cwd,        \* path call: Path.cwd().iterdir(), in the order it lists
    p_store,      \* path call: PACKAGES_DIR.iterdir(), in the order it lists
    p_result,     \* path call: the list find_plugins_paths returned, or NotListed
    l_img,        \* loader call: what is on disk at the root
    l_cached,     \* loader call: sys.modules[root.name] at the call
    l_result,     \* loader call: outcome of import_plugin_module, or NotLoaded
    c_file,       \* config document: the text of the file on disk
    c_orig,       \* config document: self._orig_lines
    c_lines,      \* config document: self.lines
    c_backups,    \* config document: timestamp -> text of the backup file
    c_clock,      \* config document: datetime.now(), in seconds
    c_saves,      \* config document: number of save() calls so far (bounded)
    c_edits,      \* config document: number of edits of the buffer so far (bounded)
    c_last        \* config document: the last operation and what it started from

gateVars == <<g_manifest, g_host, g_result>>
hostVars == <<disk, sys_modules, pc, roots, idx, loaded, plugin_tabs,
              loader_calls, status, installed_list, writes, message_box>>
installVars == <<i_pkg, i_download, i_fs, i_old, i_tmp, i_pc, i_matched, i_result>>
resolverVars == <<r_shape, r_plugin, r_manifest, r_result>>
parseVars == <<pv_a, pv_b, pv_result>>
\* the variables of the calls checked on their own
pathVars == <<p_cwd, p_store, p_result>>
loaderVars == <<l_img, l_cached, l_result>>
docVars == <<c_file, c_orig, c_lines, c_backups, c_clock, c_saves, c_edits,
            c_last>>
moreVars == <<pathVars, loaderVars, docVars>>
callVars == <<gateVars, installVars, resolverVars, parseVars, moreVars>>
vars == <<g_manifest, g_host, g_result, disk, sys_modules, pc, roots, idx,
          loaded, plugin_tabs, loader_calls, status, installed_list, writes,
          message_box, i_pkg, i_download, i_fs, i_old, i_tmp, i_pc, i_matched,
          i_result, r_shape, r_plugin, r_manifest, r_result, pv_a, pv_b,
          pv_result, p_cwd, p_store, p_result, l_img, l_cached, l_result,
          c_file, c_orig, c_lines, c_backups, c_clock, c_saves, c_edits, c_last>>

\* the calls below have not been made
NotListed == "notlisted"
NotLoaded == [label |-> "notloaded"]
NoOperation == [op |-> "none"]
PathIdle == p_cwd = <<>> /\ p_store = <<>> /\ p_result = NotListed
LoaderIdle ==
    /\ l_img = [type |-> "none"]
    /\ l_cached = [kind |-> "notimported"]
    /\ l_result = NotLoaded
DocIdle ==
    /\ c_file = <<>>
    /\ c_orig = <<>>
    /\ c_lines = <<>>
    /\ c_backups = <<>>
    /\ c_clock = 0
    /\ c_saves = 0
    /\ c_edits = 0
    /\ c_last = NoOperation

-----------------------------------------------------------------------------
(* Python values, as far as the gate looks at them.                         *)

Absent == [tag |-> "absent"]
PyNone == [tag |-> "none"]
PyStr(s) == [tag |-> "str", s |-> s]
PyInt(n) == [tag |-> "int", n |-> n]
PyList(items) == [tag |-> "list", items |-> items]
PyDict(minv, ccv, cv, other) ==
    [tag |-> "dict", min_core_version |-> minv, compatible_core_versions |-> ccv,
     compatible_versions |-> cv, other |-> other]

\* the empty mapping {}
EmptyManifest == PyDict(Absent, Absent, Absent, FALSE)

\* Python truthiness (bool(v)) of the values above
Truthy(v) ==
    CASE v.tag = "none" -> FALSE
      [] v.tag = "absent" -> FALSE
      [] v.tag = "str" -> v.s # <<>>
      [] v.tag = "int" -> v.n # 0
      [] v.tag = "list" -> v.items # <<>>
      [] v.tag = "dict" -> \/ v.min_core_version # Absent
                           \/ v.compatible_core_versions # Absent
                           \/ v.compatible_versions # Absent
                           \/ v.other

\* dict.get(key): the value, or None when the key is absent
DictGet(field) == IF field = Absent THEN PyNone ELSE field

-----------------------------------------------------------------------------
(* Strings are sequences of one-character strings.                          *)

Digits == <<"0", "1", "2", "3", "4", "5", "6", "7", "8", "9">>

IsDigit(c) == \E i \in 1..Len(Digits) : Digits[i] = c

DigitVal(c) == (CHOOSE i \in 1..Len(Digits) : Digits[i] = c) - 1

IsSpace(c) == c = " "

RECURSIVE LStrip(_)
LStrip(s) == IF s # <<>> /\ IsSpace(Head(s)) THEN LStrip(Tail(s)) ELSE s

RECURSIVE RStrip(_)
RStrip(s) ==
    IF s # <<>> /\ IsSpace(s[Len(s)]) THEN RStrip(SubSeq(s, 1, Len(s) - 1)) ELSE s

\* str.strip()
Strip(s) == RStrip(LStrip(s))

\* str.split("."): always at least one segment
RECURSIVE SplitDot(_, _)
SplitDot(s, cur) ==
    IF s = <<>> THEN <<cur>>
    ELSE IF Head(s) = "." THEN <<cur>> \o SplitDot(Tail(s), <<>>)
    ELSE SplitDot(Tail(s), Append(cur, Head(s)))

RECURSIVE DigitsValue(_, _)
DigitsValue(s, acc) ==
    IF s = <<>> THEN acc ELSE DigitsValue(Tail(s), 10 * acc + DigitVal(Head(s)))

AllDigits(s) == s # <<>> /\ \A i \in 1..Len(s) : IsDigit(s[i])

\* int(p) for a str p: surrounding whitespace and one sign are accepted;
\* anything else raises ValueError
IntOfStr(p) ==
    LET t == Strip(p)
        signed == t # <<>> /\ Head(t) \in {"-", "+"}
        body == IF signed THEN Tail(t) ELSE t
    IN  IF AllDigits(body)
        THEN [ok |-> TRUE,
              val |-> IF signed /\ Head(t) = "-" THEN 0 - DigitsValue(body, 0)
                      ELSE DigitsValue(body, 0)]
        ELSE [ok |-> FALSE, val |-> 0]

RECURSIVE NatToStr(_)
NatToStr(n) ==
    IF n < 10 THEN <<Digits[n + 1]>>
    ELSE NatToStr(n \div 10) \o <<Digits[(n % 10) + 1]>>

\* str(v) for the values a manifest field can hold
PyStrOf(v) ==
    CASE v.tag = "str" -> v.s
      [] v.tag = "int" -> IF v.n < 0 THEN <<"-">> \o NatToStr(0 - v.n) ELSE NatToStr(v.n)
      [] v.tag = "none" -> <<"N", "o", "n", "e">>
      [] OTHER -> <<"?">>

\* except-branch of _parse_version: parts.append(0)
SegmentOnError == [ok |-> TRUE, val |-> 0]

SegmentValue(p) == IF IntOfStr(p).ok THEN IntOfStr(p) ELSE SegmentOnError

\* _parse_version(v) for a str v: one integer per '.'-separated segment
_parse_version(v) ==
    LET segs == SplitDot(Strip(v), <<>>)
    IN  [i \in 1..Len(segs) |-> SegmentValue(segs[i]).val]

\* Python tuple ordering: first differing element decides, else the shorter is less
RECURSIVE TupleLess(_, _)
TupleLess(a, b) ==
    IF b = <<>> THEN FALSE
    ELSE IF a = <<>> THEN TRUE
    ELSE IF Head(a) # Head(b) THEN Head(a) < Head(b)
    ELSE TupleLess(Tail(a), Tail(b))

TupleGE(a, b) == ~TupleLess(a, b)

TupleEq(a, b) == a = b

-----------------------------------------------------------------------------
(* is_plugin_compatible                                                     *)

Returned(b) == [exc |-> FALSE, ret |-> b]
Raised == [exc |-> TRUE, ret |-> FALSE]

\* iterating compat_list: list items, or the characters of a str
IterItems(v) ==
    IF v.tag = "list" THEN v.items
    ELSE [i \in 1..Len(v.s) |-> PyStr(<<v.s[i]>>)]

Iterable(v) == v.tag \in {"list", "str"}

\* `a or b`
PyOr(a, b) == IF Truthy(a) THEN a ELSE b

\* `if minv:` -- the minimum form applies
MinFormApplies(minv) == Truthy(minv)

\* manifest.get("compatible_core_versions") or manifest.get("compatible_versions")
CompatList(manifest) ==
    PyOr(DictGet(manifest.compatible_core_versions), DictGet(manifest.compatible_versions))

\* the for loop over compat_list
ListDecides(core_v, compat_list) ==
    \E i \in 1..Len(IterItems(compat_list)) :
        TupleEq(core_v, _parse_version(PyStrOf(IterItems(compat_list)[i])))

\* line 237 returns False instead of True
NoConstraintDenied == FALSE

\* line 237: no compatibility key applies
NoConstraintResult == TRUE

\* the body of the try block
GateBody(manifest, core_version) ==
    IF ~Truthy(manifest) THEN Returned(TRUE)
    ELSE IF core_version.tag # "str" THEN Raised        \* v.strip() on a non-str
    ELSE IF manifest.tag # "dict" THEN Raised            \* manifest.get on a non-dict
    ELSE LET core_v == _parse_version(core_version.s)
             minv == DictGet(manifest.min_core_version)
             compat_list == CompatList(manifest)
         IN  IF MinFormApplies(minv)
             THEN Returned(TupleGE(core_v, _parse_version(PyStrOf(minv))))
             ELSE IF Truthy(compat_list)
             THEN IF Iterable(compat_list)
                  THEN Returned(ListDecides(core_v, compat_list))
                  ELSE Raised                            \* for v in <int>
             ELSE Returned(NoConstraintResult)

\* the exception leaves is_plugin_compatible instead of being caught
GateOnErrorPropagates(outcome) == outcome

\* except Exception: return False
GateOnError(outcome) == Returned(FALSE)

is_plugin_compatible(manifest, core_version) ==
    IF GateBody(manifest, core_version).exc
    THEN GateOnError(GateBody(manifest, core_version))
    ELSE GateBody(manifest, core_version)

-----------------------------------------------------------------------------
(* Inputs of the gate calls.                                                *)

V_0_2_0 == <<"0", ".", "2", ".", "0">>
V_0_2_1 == <<"0", ".", "2", ".", "1">>
V_0_3_0 == <<"0", ".", "3", ".", "0">>
V_9_9_9 == <<"9", ".", "9", ".", "9">>
V_0_1 == <<"0", ".", "1">>
V_0_2 == <<"0", ".", "2">>
V_10_0 == <<"1", "0", ".", "0">>
V_1_x == <<"1", ".", "x">>
V_padded == <<" ", "0", ".", "2", ".", "0", " ">>
V_empty == <<>>

\* __version__ = "0.2.0"
CoreVersion == PyStr(V_0_2_0)

VersionTexts ==
    {V_0_2_0, V_0_2_1, V_0_3_0, V_9_9_9, V_0_1, V_0_2, V_10_0, V_1_x,
     V_padded, V_empty}

HostValues == {PyStr(t) : t \in VersionTexts} \cup {PyNone, PyInt(2)}

MinValues ==
    {Absent, PyNone, PyInt(0), PyInt(1)}
    \cup {PyStr(t) : t \in {V_0_2_0, V_0_1, V_0_3_0, V_9_9_9, V_0_2, V_1_x, V_empty}}

ListValues ==
    {Absent, PyNone, PyInt(5), PyStr(V_0_2_0),
     PyList(<<>>),
     PyList(<<PyStr(V_0_2_0), PyStr(V_0_3_0)>>),
     PyList(<<PyStr(V_9_9_9)>>),
     PyList(<<PyStr(V_0_2)>>),
     PyList(<<PyInt(2), PyNone>>)}

DictManifests ==
    {PyDict(m, a, b, o) : m \in MinValues, a \in ListValues, b \in ListValues,
                          o \in BOOLEAN}

\* what a decoded manifest file can be when it is not a mapping
NonMappingManifests ==
    {PyNone, PyInt(0), PyInt(7), PyStr(<<>>), PyStr(V_0_2_0), PyList(<<>>),
     PyList(<<PyStr(V_0_2_0)>>)}

ManifestValues == DictManifests \cup NonMappingManifests

NotCalled == [exc |-> FALSE, ret |-> FALSE, called |-> FALSE]

IsMapping(m) == m.tag = "dict"

Called == g_result # NotCalled

-----------------------------------------------------------------------------
(* The disk: plugin roots, their manifest files and their entry files.      *)

\* the handlers of the package tab have shown no message box
NoMessage == "none"

\* bounds of the model
MaxVer == 2
MaxWrites == 2

Pkgs == {"alpha", "beta"}
\* the names of the store, sorted (list_installed_packages sorts)
SortedPkgs == <<"alpha", "beta">>
LocalPlugins == "plugins"
SoloFile == "solo_plugin"
DirRoots == Pkgs \cup {LocalPlugins}
AllRoots == DirRoots \cup {SoloFile}

NoFile == [kind |-> "nofile"]
JsonDoc(v) == [kind |-> "json", value |-> v]
\* text that json.loads rejects; yaml: what the fallback (import yaml;
\* yaml.safe_load) makes of it, YamlError when either of the two raises
YamlError == [tag |-> "yaml_error"]
TextDoc(y) == [kind |-> "text", yaml |-> y]

Code(v, entry) == [kind |-> "code", ver |-> v, entry |-> entry]

NoRoot == [type |-> "none"]
DirImage(pj, mj, init, plug, nplug) ==
    [type |-> "dir", plugin_json |-> pj, manifest_json |-> mj, init_py |-> init,
     plugin_py |-> plug, name_plugin_py |-> nplug]
FileImage(c) == [type |-> "file", file |-> c]

PassManifest == PyDict(PyStr(V_0_1), Absent, Absent, TRUE)
FailManifest == PyDict(PyStr(V_9_9_9), Absent, Absent, TRUE)
Garbage == TextDoc(YamlError)
Words == TextDoc(PyStr(<<"h", "i">>))

Versions == 1..MaxVer

\* directory contents a package can have
PkgImages ==
    UNION {
      { DirImage(JsonDoc(PassManifest), NoFile, NoFile, Code(v, "EditorWidget"), NoFile),
        DirImage(NoFile, NoFile, Code(v, "create_editor"), NoFile, NoFile) } : v \in Versions }
    \cup
    { DirImage(JsonDoc(FailManifest), NoFile, NoFile, Code(1, "EditorWidget"), NoFile),
      DirImage(Garbage, JsonDoc(FailManifest), NoFile, NoFile, Code(1, "EditorWidget")),
      DirImage(Words, NoFile, NoFile, Code(1, "EditorWidget"), NoFile),
      DirImage(NoFile, JsonDoc(PassManifest), Code(1, "import_raises"), NoFile, NoFile),
      DirImage(NoFile, NoFile, NoFile, Code(1, "ctor_raises"), NoFile),
      DirImage(NoFile, NoFile, NoFile, Code(1, "no_entry"), NoFile),
      DirImage(NoFile, NoFile, NoFile, NoFile, NoFile) }

\* contents the local plugins directory of the working directory can have
LocalImages ==
    { DirImage(NoFile, NoFile, NoFile, Code(1, "EditorWidget"), NoFile),
      DirImage(JsonDoc(FailManifest), NoFile, NoFile, Code(1, "EditorWidget"), NoFile),
      DirImage(NoFile, NoFile, Code(1, "create_editor"), NoFile, NoFile) }

FileImages ==
    {FileImage(Code(1, "EditorWidget")), FileImage(Code(1, "import_raises"))}

ImagesFor(r) ==
    IF r \in Pkgs THEN PkgImages ELSE IF r = LocalPlugins THEN LocalImages ELSE FileImages

IsDir(d, r) == d[r].type = "dir"
IsFile(d, r) == d[r].type = "file"

-----------------------------------------------------------------------------
(* Manifest Resolver, local call shape.                                     *)

\* json.loads / yaml.safe_load of one manifest file that exists
DecodeManifest(f) ==
    IF f.kind = "json" THEN f.value
    ELSE IF f.yaml # YamlError THEN f.yaml
    ELSE EmptyManifest

\* a plugin.json that decodes to nothing is passed over for manifest.json
read_local_manifest_continue(img) ==
    IF img.plugin_json # NoFile /\ DecodeManifest(img.plugin_json) # EmptyManifest
    THEN DecodeManifest(img.plugin_json)
    ELSE IF img.manifest_json # NoFile THEN DecodeManifest(img.manifest_json)
    ELSE EmptyManifest

\* read_local_manifest: plugin.json, then manifest.json; the first that exists
read_local_manifest(img) ==
    IF img.plugin_json # NoFile THEN DecodeManifest(img.plugin_json)
    ELSE IF img.manifest_json # NoFile THEN DecodeManifest(img.manifest_json)
    ELSE EmptyManifest

-----------------------------------------------------------------------------
(* Plugin Path Resolver.                                                    *)

\* r.resolve(): every root of the model has its own absolute path
ResolvedPath(r) == r

RECURSIVE Uniq(_, _, _)
Uniq(rs, seen, uniq) ==
    IF rs = <<>> THEN uniq
    ELSE IF ResolvedPath(Head(rs)) \in seen THEN Uniq(Tail(rs), seen, uniq)
    ELSE Uniq(Tail(rs), seen \cup {ResolvedPath(Head(rs))}, Append(uniq, Head(rs)))

RECURSIVE SelectDirs(_, _)
SelectDirs(d, names) ==
    IF names = <<>> THEN <<>>
    ELSE IF IsDir(d, Head(names)) THEN <<Head(names)>> \o SelectDirs(d, Tail(names))
    ELSE SelectDirs(d, Tail(names))

\* the orders pkgs.iterdir() may list the store in
IterdirOrders ==
    {o \in [1..Cardinality(Pkgs) -> Pkgs] : \A i, j \in DOMAIN o : i # j => o[i] # o[j]}

\* find_plugins_paths, the store listed in the order `order`
find_plugins_paths(d, order) ==
    Uniq((IF IsDir(d, LocalPlugins) THEN <<LocalPlugins>> ELSE <<>>)
         \o SelectDirs(d, order)
         \o (IF IsFile(d, SoloFile) THEN <<SoloFile>> ELSE <<>>),
         {}, <<>>)

-----------------------------------------------------------------------------
(* Dynamic Loader.                                                          *)

NotImported == [kind |-> "notimported"]
NoModule == [kind |-> "nomodule"]

\* executing a module's source: it either defines the module or raises
ExecRaises(c) == c.entry = "import_raises"

\* spec_from_file_location + exec_module of one file: the module, or None
\* through the outer except
LoadFile(c) == IF ExecRaises(c) THEN NoModule ELSE c

\* the mutation of FirstCandidate: __init__.py tried before the plugin files
FirstCandidateInitFirst(img) ==
    IF img.init_py # NoFile THEN img.init_py
    ELSE IF img.plugin_py # NoFile THEN img.plugin_py
    ELSE img.name_plugin_py

\* candidates = [plugin.py, <name>_plugin.py, __init__.py]: the first that exists
FirstCandidate(img) ==
    IF img.plugin_py # NoFile THEN img.plugin_py
    ELSE IF img.name_plugin_py # NoFile THEN img.name_plugin_py
    ELSE img.init_py

\* importlib.import_module(modname): a module already in sys.modules is returned
\* as it is; otherwise __init__.py is executed and, if that succeeds, cached
ImportModule(img, cached) ==
    IF cached # NotImported THEN cached
    ELSE LoadFile(img.init_py)

\* import_plugin_module(root): [mod, label, cache]
import_plugin_module(r, img, cache) ==
    IF img.type = "dir"
    THEN IF img.init_py # NoFile /\ ImportModule(img, cache[r]) # NoModule
         THEN [mod |-> ImportModule(img, cache[r]), label |-> "package",
               cache |-> [cache EXCEPT ![r] = ImportModule(img, cache[r])]]
         ELSE IF FirstCandidate(img) # NoFile
         THEN [mod |-> LoadFile(FirstCandidate(img)), label |-> "file", cache |-> cache]
         ELSE [mod |-> NoModule, label |-> "none", cache |-> cache]
    ELSE [mod |-> LoadFile(img.file), label |-> "stem", cache |-> cache]

-----------------------------------------------------------------------------
(* Installer: install_package_from_github.                                  *)
(* Archive member names are strings, as zf.namelist() gives them; the       *)
(* store is the set of entries under PACKAGES_DIR, each a path (a sequence   *)
(* of name components), a directory flag and the data of a file.            *)

StartsWith(s, prefix) ==
    Len(s) >= Len(prefix) /\ SubSeq(s, 1, Len(prefix)) = prefix

EndsWithSlash(s) == s # <<>> /\ s[Len(s)] = "/"

\* str.split("/")
RECURSIVE SplitSlash(_, _)
SplitSlash(s, cur) ==
    IF s = <<>> THEN <<cur>>
    ELSE IF Head(s) = "/" THEN <<cur>> \o SplitSlash(Tail(s), <<>>)
    ELSE SplitSlash(Tail(s), Append(cur, Head(s)))

\* the components pathlib keeps of a relative path text: empty and "."
\* components are dropped
PathParts(text) ==
    SelectSeq(SplitSlash(text, <<>>), LAMBDA c : c # <<>> /\ c # <<".">>)

RECURSIVE JoinSlash(_)
JoinSlash(comps) ==
    IF Len(comps) = 1 THEN comps[1]
    ELSE comps[1] \o <<"/">> \o JoinSlash(Tail(comps))

NoData == "-"
\* what is in a file whose write stopped part-way
Truncated == "truncated"

FileMember(comps, data) == [name |-> JoinSlash(comps), data |-> data]
DirMember(comps) == [name |-> JoinSlash(comps) \o <<"/">>, data |-> NoData]

\* the names of the snapshots: root folder, packages, files
RepoRoot == <<"R">>
PkgA == <<"a">>
PkgAB == <<"a", "b">>
PkgZ == <<"z">>
PluginPy == <<"p", ".", "p", "y">>
PluginJson == <<"p", ".", "j">>
LibDir == <<"l", "i", "b">>
UtilPy == <<"u", ".", "p", "y">>

\* the subtrees a package folder can have in a snapshot
SubtreeA1 ==
    <<DirMember(<<RepoRoot, PkgA>>),
      FileMember(<<RepoRoot, PkgA, PluginJson>>, "json-1"),
      FileMember(<<RepoRoot, PkgA, PluginPy>>, "code-1")>>
SubtreeA2 ==
    <<DirMember(<<RepoRoot, PkgA>>),
      DirMember(<<RepoRoot, PkgA, LibDir>>),
      FileMember(<<RepoRoot, PkgA, LibDir, UtilPy>>, "util-2"),
      FileMember(<<RepoRoot, PkgA, PluginPy>>, "code-2")>>
\* a package folder that is a submodule: the snapshot has its directory entry only
SubtreeAOnly == <<DirMember(<<RepoRoot, PkgA>>)>>
SubtreeAB ==
    <<DirMember(<<RepoRoot, PkgAB>>),
      FileMember(<<RepoRoot, PkgAB, PluginPy>>, "code-ab")>>

\* zf.namelist() of the snapshots: the root folder entry first
Snapshots ==
    {<<DirMember(<<RepoRoot>>)>> \o x \o y :
        x \in {<<>>, SubtreeA1, SubtreeA2, SubtreeAOnly}, y \in {<<>>, SubtreeAB}}

DownloadError == [kind |-> "error"]
NotAZip == [kind |-> "notzip"]
Zip(members) == [kind |-> "zip", members |-> members]

\* what urlopen(repo_url) can yield: an error, a body that is no archive, an
\* archive without entries, a snapshot of the repository
Downloads ==
    {DownloadError, NotAZip, Zip(<<>>)} \cup {Zip(ms) : ms \in Snapshots}

PackageFolders == {PkgA, PkgAB, PkgZ}

Entry(path, dir, data) == [path |-> path, dir |-> dir, data |-> data]

IsUnder(path, top) ==
    Len(path) >= Len(top) /\ SubSeq(path, 1, Len(top)) = top

Exists(fs, path) == \E e \in fs : e.path = path

\* the path components that leave a directory: the parent directory, and
\* the root of the file system an absolute path starts from
Up == <<".", ".">>
RootDir == <<"/">>

\* dest / rel: an absolute rel replaces dest, a relative one is appended;
\* ".." components are kept as they are written
PathJoin(dest, rel) ==
    IF rel # <<>> /\ Head(rel) = "/" THEN <<RootDir>> \o PathParts(rel)
    ELSE dest \o PathParts(rel)

\* the place the operating system finds for a path: each ".." leaves the
\* directory reached so far.  Paths are relative to PACKAGES_DIR: a result
\* that starts with ".." or with the root lies outside the store
RECURSIVE OsPathFrom(_, _)
OsPathFrom(parts, reached) ==
    IF parts = <<>> THEN reached
    ELSE IF Head(parts) # Up THEN OsPathFrom(Tail(parts), Append(reached, Head(parts)))
    ELSE IF reached = <<RootDir>> THEN OsPathFrom(Tail(parts), reached)
    ELSE IF reached = <<>> \/ reached[Len(reached)] = Up
    THEN OsPathFrom(Tail(parts), Append(reached, Up))
    ELSE OsPathFrom(Tail(parts), SubSeq(reached, 1, Len(reached) - 1))

OsPath(path) == OsPathFrom(path, <<>>)

\* directories that are there whatever the store holds: the store, its
\* ancestors and the root
AlwaysThere(path) ==
    path = <<RootDir>> \/ \A k \in DOMAIN path : path[k] = Up

\* Path.mkdir(parents=True, exist_ok=True)
Mkdirs(fs, path) ==
    fs \cup {Entry(OsPath(SubSeq(path, 1, k)), TRUE, NoData) :
                k \in {j \in 1..Len(path) : ~AlwaysThere(OsPath(SubSeq(path, 1, j)))}}

\* open(target, "wb") ... dst.write(data)
WriteFile(fs, path, data) ==
    {e \in fs : e.path # OsPath(path)} \cup {Entry(OsPath(path), FALSE, data)}

Parent(path) == SubSeq(path, 1, Len(path) - 1)

\* rmtree returns without removing anything
rmtree_skipped(fs, top) == fs

\* shutil.rmtree(top)
rmtree(fs, top) == {e \in fs : ~IsUnder(e.path, top)}

\* what a failing rmtree(top) can leave: top itself and, with every entry
\* left, its parent directories
RmtreeRemnants(fs, top) ==
    {kept \in SUBSET {e \in fs : IsUnder(e.path, top)} :
        /\ \E e \in kept : e.path = top
        /\ \A e \in kept : \A k \in Len(top)..Len(e.path) :
               \E d \in kept : d.path = SubSeq(e.path, 1, k)}

\* line 264: members[0].split("/", 1)[0] + "/"
ArchiveRoot(members) == SplitSlash(members[1].name, <<>>)[1] \o <<"/">>

\* line 265: f"{root}{package_folder}/"
TargetPrefix(members, package_folder) ==
    ArchiveRoot(members) \o package_folder \o <<"/">>

\* line 266: [m for m in members if m.startswith(target_prefix)]
Matched(members, package_folder) ==
    SelectSeq(members,
              LAMBDA m : StartsWith(m.name, TargetPrefix(members, package_folder)))

\* line 267 without its raise
NotFoundIgnored(matched) == FALSE

\* line 267: if not matched
NotFoundRaises(matched) == matched = <<>>

\* line 269: ensure_packages_dir() / package_folder, relative to PACKAGES_DIR
Dest(package_folder) == PathParts(package_folder)

\* lines 274-283 for one member: the store after it is extracted
ExtractMember(fs, dest, prefix, member) ==
    LET rel == SubSeq(member.name, Len(prefix) + 1, Len(member.name))
        target == PathJoin(dest, rel)
    IN  IF rel = <<>> THEN fs
        ELSE IF EndsWithSlash(member.name) THEN Mkdirs(fs, target)
        ELSE WriteFile(Mkdirs(fs, Parent(target)), target, member.data)

\* the same lines when an OS error ends them: "mkdir" before anything is
\* created, "write" after the file is opened
ExtractMemberFails(fs, dest, prefix, member, at) ==
    LET rel == SubSeq(member.name, Len(prefix) + 1, Len(member.name))
        target == PathJoin(dest, rel)
    IN  IF at = "mkdir" THEN fs
        ELSE WriteFile(Mkdirs(fs, Parent(target)), target, Truncated)

\* the member can fail at `at`
CanFail(prefix, member, at) ==
    /\ Len(member.name) > Len(prefix)
    /\ at = "write" => ~EndsWithSlash(member.name)

RECURSIVE ExtractAll(_, _, _, _)
ExtractAll(fs, dest, prefix, members) ==
    IF members = <<>> THEN fs
    ELSE ExtractAll(ExtractMember(fs, dest, prefix, Head(members)), dest, prefix,
                    Tail(members))

\* the copy an earlier install of package_folder from members left
InstalledCopy(members, package_folder) ==
    ExtractAll({}, Dest(package_folder),
               TargetPrefix(<<DirMember(<<RepoRoot>>)>>, package_folder), members)

\* what PACKAGES_DIR can hold when install is called
InitialStores ==
    {{},
     InstalledCopy(SubtreeA1, PkgA),
     InstalledCopy(SubtreeA1, PkgA) \cup InstalledCopy(SubtreeAB, PkgAB),
     InstalledCopy(SubtreeA2, PkgA) \cup InstalledCopy(SubtreeAB, PkgAB)}

TmpAbsent == "absent"
TmpEmpty == "empty"
TmpSnapshot == "snapshot"

\* the finally block is missing
unlink_skipped(tmp) == tmp

\* lines 285-289: tmp_path.unlink()
unlink(tmp) == TmpAbsent

NotInstalled == [kind |-> "none"]
ReturnedPath(dest) == [kind |-> "returned", path |-> dest]
RaisedError(error) == [kind |-> "raised", error |-> error]

InstallIdle ==
    /\ i_pkg = PkgA
    /\ i_download = DownloadError
    /\ i_fs = {}
    /\ i_old = {}
    /\ i_tmp = TmpAbsent
    /\ i_pc = "idle"
    /\ i_matched = <<>>
    /\ i_result = NotInstalled

\* an exception leaves install_package_from_github through the finally
\* block; tmp is the temporary file at that moment
InstallRaises(error, tmp) ==
    /\ i_result' = RaisedError(error)
    /\ i_tmp' = unlink(tmp)
    /\ i_pc' = "done"

\* lines 250-258: the temporary file is created and the snapshot downloaded
Download ==
    /\ i_pc = "called"
    /\ IF i_download.kind = "error"
       THEN InstallRaises("DownloadError", TmpEmpty)
       ELSE /\ i_tmp' = TmpSnapshot
            /\ i_pc' = "downloaded"
            /\ UNCHANGED i_result
    /\ UNCHANGED <<i_pkg, i_download, i_fs, i_old, i_matched, hostVars, moreVars, gateVars,
                   resolverVars, parseVars>>

\* lines 259-268: the archive is opened and the members of the package selected
SelectMembers ==
    /\ i_pc = "downloaded"
    /\ IF i_download.kind = "notzip"
       THEN InstallRaises("BadZipFile", i_tmp) /\ UNCHANGED i_matched
       ELSE IF i_download.members = <<>>
       THEN InstallRaises("EmptyArchive", i_tmp) /\ UNCHANGED i_matched
       ELSE IF NotFoundRaises(Matched(i_download.members, i_pkg))
       THEN InstallRaises("PackageNotFound", i_tmp) /\ UNCHANGED i_matched
       ELSE /\ i_matched' = Matched(i_download.members, i_pkg)
            /\ i_pc' = "selected"
            /\ UNCHANGED <<i_tmp, i_result>>
    /\ UNCHANGED <<i_pkg, i_download, i_fs, i_old, hostVars, moreVars, gateVars,
                   resolverVars, parseVars>>

\* lines 269-272: an existing dest is removed; rmtree can fail part-way
RemoveOld ==
    /\ i_pc = "selected"
    /\ IF Exists(i_fs, Dest(i_pkg))
       THEN \/ /\ i_fs' = rmtree(i_fs, Dest(i_pkg))
               /\ i_pc' = "extracting"
               /\ UNCHANGED <<i_tmp, i_result>>
            \/ \E kept \in RmtreeRemnants(i_fs, Dest(i_pkg)) :
                  /\ i_fs' = rmtree(i_fs, Dest(i_pkg)) \cup kept
                  /\ InstallRaises("RemoveFailed", i_tmp)
       ELSE /\ i_pc' = "extracting"
            /\ UNCHANGED <<i_fs, i_tmp, i_result>>
    /\ UNCHANGED <<i_pkg, i_download, i_old, i_matched, hostVars, moreVars, gateVars,
                   resolverVars, parseVars>>

\* lines 273-283: the next member of `matched` is extracted, or an OS error
\* ends the call
ExtractNext ==
    /\ i_pc = "extracting"
    /\ i_matched # <<>>
    /\ LET prefix == TargetPrefix(i_download.members, i_pkg)
       IN  \/ /\ i_fs' = ExtractMember(i_fs, Dest(i_pkg), prefix, Head(i_matched))
              /\ i_matched' = Tail(i_matched)
              /\ UNCHANGED <<i_pc, i_tmp, i_result>>
           \/ \E at \in {"mkdir", "write"} :
                 /\ CanFail(prefix, Head(i_matched), at)
                 /\ i_fs' = ExtractMemberFails(i_fs, Dest(i_pkg), prefix,
                                               Head(i_matched), at)
                 /\ InstallRaises("ExtractFailed", i_tmp)
                 /\ UNCHANGED i_matched
    /\ UNCHANGED <<i_pkg, i_download, i_old, hostVars, moreVars, gateVars, resolverVars,
                   parseVars>>

\* lines 284-289: return str(dest), through the finally block
ReturnDest ==
    /\ i_pc = "extracting"
    /\ i_matched = <<>>
    /\ i_result' = ReturnedPath(Dest(i_pkg))
    /\ i_tmp' = unlink(i_tmp)
    /\ i_pc' = "done"
    /\ UNCHANGED <<i_pkg, i_download, i_fs, i_old, i_matched, hostVars, moreVars, gateVars,
                   resolverVars, parseVars>>

-----------------------------------------------------------------------------
(* Manifest Resolver, remote call shape, and the files of both shapes.      *)

\* a manifest file that exists and cannot be read (permissions, not UTF-8, a
\* directory of that name): both read_text calls raise
Unreadable == [kind |-> "unreadable", yaml |-> YamlError]
\* a `content` field that is not base64 of UTF-8 text: `raw` is never bound
Undecodable == [kind |-> "undecodable", yaml |-> YamlError]

\* the manifest documents of the resolver calls
Documents ==
    {Garbage, Words, TextDoc(PyNone), TextDoc(FailManifest),
     JsonDoc(PassManifest), JsonDoc(FailManifest), JsonDoc(EmptyManifest),
     JsonDoc(PyNone), JsonDoc(PyInt(7)), JsonDoc(PyList(<<PyStr(V_0_2_0)>>))}

LocalSources == {NoFile, Unreadable} \cup Documents

\* what one GET of the contents API can yield
ApiNetworkError == [kind |-> "neterror"]
ApiReadTimeout == [kind |-> "timeout"]
ApiBadBody == [kind |-> "badbody"]
ApiStatus(code) == [kind |-> "status", status |-> code]
ApiListing == [kind |-> "listing"]
ApiNoContent == [kind |-> "nocontent"]
ApiFile(doc) == [kind |-> "file", content |-> doc]

RemoteSources ==
    {ApiNetworkError, ApiReadTimeout, ApiBadBody, ApiStatus(404), ApiStatus(403),
     ApiListing, ApiNoContent}
    \cup {ApiFile(doc) : doc \in Documents \cup {Undecodable}}

\* github_api_get: [raised, status, data]; HTTPError gives its code, URLError
\* is re-raised as RuntimeError, any other exception leaves as it is
github_api_get(resp) ==
    CASE resp.kind = "neterror" -> [raised |-> TRUE, status |-> 0, data |-> resp]
      [] resp.kind = "timeout" -> [raised |-> TRUE, status |-> 0, data |-> resp]
      [] resp.kind = "badbody" -> [raised |-> TRUE, status |-> 0, data |-> resp]
      [] resp.kind = "status" -> [raised |-> FALSE, status |-> resp.status, data |-> resp]
      [] OTHER -> [raised |-> FALSE, status |-> 200, data |-> resp]

\* line 190: status == 200 and isinstance(data, dict) and "content" in data
HasContent(got) == got.status = 200 /\ got.data.kind = "file"

NoValue == [tag |-> "novalue"]
Resolved(value, consulted) == [raised |-> FALSE, value |-> value, consulted |-> consulted]
ResolverRaised(consulted) == [raised |-> TRUE, value |-> NoValue, consulted |-> consulted]

\* line 189: the call of github_api_get is outside the try block
OnApiError(consulted) == ResolverRaised(consulted)

\* fetch_remote_manifest, the two GETs answering with plugin and manifest
fetch_remote_manifest(plugin, manifest) ==
    IF github_api_get(plugin).raised THEN OnApiError(<<"plugin.json">>)
    ELSE IF HasContent(github_api_get(plugin))
    THEN Resolved(DecodeManifest(plugin.content), <<"plugin.json">>)
    ELSE IF github_api_get(manifest).raised
    THEN OnApiError(<<"plugin.json", "manifest.json">>)
    ELSE IF HasContent(github_api_get(manifest))
    THEN Resolved(DecodeManifest(manifest.content), <<"plugin.json", "manifest.json">>)
    ELSE Resolved(EmptyManifest, <<"plugin.json", "manifest.json">>)

\* the files read_local_manifest tests with p.exists()
LocalFilesTested(plugin, manifest) ==
    IF plugin # NoFile THEN <<"plugin.json">> ELSE <<"plugin.json", "manifest.json">>

\* read_local_manifest of a folder holding the two files
ResolveLocal(plugin, manifest) ==
    Resolved(read_local_manifest(DirImage(plugin, manifest, NoFile, NoFile, NoFile)),
             LocalFilesTested(plugin, manifest))

NotResolved == [raised |-> FALSE, value |-> NoValue, consulted |-> <<>>]

ResolverIdle ==
    /\ r_shape = "local"
    /\ r_plugin = NoFile
    /\ r_manifest = NoFile
    /\ r_result = NotResolved

-----------------------------------------------------------------------------
(* Version Comparator: the strings _parse_version is applied to.            *)

MaxLen == 3

VersionChars == {"0", "1", "2", ".", "-", "x", " "}

\* every string of at most MaxLen characters
VersionStrings ==
    UNION {[1..n -> VersionChars] : n \in 0..MaxLen}

\* v followed by k segments ".0"
RECURSIVE PadZeros(_, _)
PadZeros(v, k) == IF k = 0 THEN v ELSE PadZeros(v \o <<".", "0">>, k - 1)

MaxPad == 2

NotParsed == [called |-> FALSE, a |-> <<>>, b |-> <<>>]

ParseIdle ==
    /\ pv_a = <<>>
    /\ pv_b = <<>>
    /\ pv_result = NotParsed


-----------------------------------------------------------------------------
(* Plugin Host Session.                                                     *)

Placeholder(r, manifest) == [kind |-> "incompatible", root |-> r, manifest |-> manifest]
PluginTab(r, mod) == [kind |-> "plugin", root |-> r, module |-> mod]

\* line 619: the roots whose manifest is read and gated
SubjectToGate(d, r) == IsDir(d, r)

\* is_plugin_compatible(manifest) for the manifest of every directory image,
\* with core_version defaulting to __version__
GateVerdicts ==
    [img \in PkgImages \cup LocalImages |->
        is_plugin_compatible(read_local_manifest(img), CoreVersion).ret]

\* the gate's verdict is not consulted
GateIgnored(img) == TRUE

\* lines 620-621: the gate applied to the local manifest of a directory root
GatePasses(img) == GateVerdicts[img]

\* editor_cls(self.config) / editor_factory(self.config): "tab", "raised", or
\* "none" when the module exposes neither entry point
Instantiate(mod) ==
    CASE mod.entry \in {"EditorWidget", "create_editor"} -> "tab"
      [] mod.entry = "ctor_raises" -> "raised"
      [] OTHER -> "none"

\* `loaded += 1` placed before the instantiation instead of after addTab
LoadedIncrementEarly(inst) == IF inst \in {"tab", "raised"} THEN 1 ELSE 0

\* lines 642 and 646: loaded += 1 after addTab
LoadedIncrement(inst) == IF inst = "tab" THEN 1 ELSE 0

\* an instantiation exception ends the loop
NextIndexAbort(i, outcome, n) == IF outcome = "inst_failed" THEN n + 1 ELSE i + 1

\* `continue` / end of the loop body: the next root, whatever the outcome
NextIndex(i, outcome, n) == i + 1

\* one iteration of the for loop of reload_plugins, for root r
EvalRoot(d, r, cache) ==
    IF SubjectToGate(d, r) /\ ~GatePasses(d[r])
    THEN [outcome |-> "gated", tabs |-> <<Placeholder(r, read_local_manifest(d[r]))>>,
          count |-> 0, called |-> {}, cache |-> cache]
    ELSE LET res == import_plugin_module(r, d[r], cache)
         IN  IF res.mod = NoModule
             THEN [outcome |-> "load_failed", tabs |-> <<>>, count |-> 0,
                   called |-> {r}, cache |-> res.cache]
             ELSE IF Instantiate(res.mod) = "tab"
             THEN [outcome |-> "hosted", tabs |-> <<PluginTab(r, res.mod)>>,
                   count |-> LoadedIncrement(Instantiate(res.mod)),
                   called |-> {r}, cache |-> res.cache]
             ELSE [outcome |-> IF Instantiate(res.mod) = "raised" THEN "inst_failed"
                               ELSE "no_entry",
                   tabs |-> <<>>, count |-> LoadedIncrement(Instantiate(res.mod)),
                   called |-> {r}, cache |-> res.cache]

\* list_installed_packages + refresh_installed_list: one entry per store directory
RECURSIVE InstalledEntries(_, _)
InstalledEntries(d, names) ==
    IF names = <<>> THEN <<>>
    ELSE IF IsDir(d, Head(names))
    THEN <<[name |-> Head(names), compat |-> GatePasses(d[Head(names)])]>>
         \o InstalledEntries(d, Tail(names))
    ELSE InstalledEntries(d, Tail(names))

refresh_installed_list(d) == InstalledEntries(d, SortedPkgs)

InstalledNames == {installed_list[i].name : i \in 1..Len(installed_list)}

NoStatus == [loaded |-> 0, roots |-> 0]

HostInit ==
    /\ disk = [r \in AllRoots |-> NoRoot]
    /\ sys_modules = [r \in DirRoots |-> NotImported]
    /\ pc = "Ready"
    /\ roots = <<>>
    /\ idx = 1
    /\ loaded = 0
    /\ plugin_tabs = <<>>
    /\ loader_calls = {}
    /\ status = NoStatus
    /\ installed_list = <<>>
    /\ writes = 0
    /\ message_box = NoMessage

GateIdle ==
    /\ g_manifest = EmptyManifest
    /\ g_host = CoreVersion
    /\ g_result = NotCalled

Init ==
    /\ HostInit
    /\ GateIdle
    /\ InstallIdle
    /\ ResolverIdle
    /\ ParseIdle
    /\ PathIdle /\ LoaderIdle /\ DocIdle

\* reload_plugins, lines 608-612: every hosted tab is removed
BeginReload ==
    /\ plugin_tabs' = <<>>
    /\ loader_calls' = {}
    /\ pc' = "Resolving"

\* the "Reload plugins" button
ReloadPlugins ==
    /\ pc = "Ready"
    /\ BeginReload
    /\ message_box' = NoMessage
    /\ UNCHANGED <<disk, sys_modules, roots, idx, loaded, status, installed_list, writes, callVars>>

\* reload_plugins, lines 614-615
Resolve ==
    /\ pc = "Resolving"
    /\ \E order \in IterdirOrders : roots' = find_plugins_paths(disk, order)
    /\ loaded' = 0
    /\ idx' = 1
    /\ pc' = "PerRootEvaluation"
    /\ UNCHANGED <<disk, sys_modules, plugin_tabs, loader_calls, status, installed_list, writes,
                   message_box, callVars>>

\* reload_plugins, lines 616-649: the loop body for roots[idx]
EvaluateRoot ==
    /\ pc = "PerRootEvaluation"
    /\ idx <= Len(roots)
    /\ LET out == EvalRoot(disk, roots[idx], sys_modules)
       IN  /\ plugin_tabs' = plugin_tabs \o out.tabs
           /\ loaded' = loaded + out.count
           /\ loader_calls' = loader_calls \cup out.called
           /\ sys_modules' = out.cache
           /\ idx' = NextIndex(idx, out.outcome, Len(roots))
    /\ UNCHANGED <<disk, pc, roots, status, installed_list, writes, message_box,
                   callVars>>

\* reload_plugins, lines 650-651: the status message and the installed list
Report ==
    /\ pc = "PerRootEvaluation"
    /\ idx > Len(roots)
    /\ status' = [loaded |-> loaded, roots |-> Len(roots)]
    /\ installed_list' = refresh_installed_list(disk)
    /\ pc' = "Ready"
    /\ UNCHANGED <<disk, sys_modules, roots, idx, loaded, plugin_tabs, loader_calls, writes,
                   message_box, callVars>>

\* what fetch_remote_manifest can have stored in a remote list item
ItemManifests ==
    {EmptyManifest, PassManifest, FailManifest, PyNone, PyStr(<<"h", "i">>)}

\* the manifest a remote list item carries: data.get("manifest", {}) or {}
RemoteItemManifest(m) == PyOr(m, EmptyManifest)

\* is_plugin_compatible(manifest) for the manifest of every remote list item
InstallVerdicts ==
    [m \in ItemManifests |->
        is_plugin_compatible(RemoteItemManifest(m), CoreVersion).ret]

\* the install handler does not consult the gate
InstallGateIgnored(m) == TRUE

\* line 544: if not is_plugin_compatible(manifest)
InstallGate(m) == InstallVerdicts[m]

\* how the call of install_package_from_github at line 549 can end: it returns,
\* it raises before the store is touched, or it raises after the old copy is gone
InstallOutcomes == {"installed", "failed", "failed_removed"}

\* lines 547-555: install_package_from_github is called for p; img is the
\* content of p in the snapshot it downloads, outcome how the call ends
RunInstaller(p, img, outcome) ==
    /\ outcome = "failed_removed" => IsDir(disk, p)
    /\ IF outcome = "installed"
       THEN /\ disk' = [disk EXCEPT ![p] = img]
            /\ message_box' = "Installed"
            /\ installed_list' = refresh_installed_list(disk')
            /\ writes' = writes + 1
            /\ BeginReload
            /\ UNCHANGED <<sys_modules, roots, idx, loaded, status, callVars>>
       ELSE /\ disk' = IF outcome = "failed_removed" THEN [disk EXCEPT ![p] = NoRoot]
                       ELSE disk
            /\ writes' = IF outcome = "failed_removed" THEN writes + 1 ELSE writes
            /\ message_box' = "Install failed"
            /\ UNCHANGED <<sys_modules, pc, roots, idx, loaded, plugin_tabs,
                           loader_calls, status, installed_list, callVars>>

\* install_selected_remote / update_selected_remote for the remote list item
\* [name |-> p, manifest |-> m]
InstallSelectedRemote(p, m) ==
    /\ pc = "Ready"
    /\ writes < MaxWrites
    /\ IF ~InstallGate(m)
       THEN /\ message_box' = "Incompatible"
            /\ UNCHANGED <<disk, sys_modules, pc, roots, idx, loaded, plugin_tabs,
                           loader_calls, status, installed_list, writes, callVars>>
       ELSE \E img \in PkgImages : \E outcome \in InstallOutcomes :
                RunInstaller(p, img, outcome)

\* uninstall_selected for the installed-list entry p; confirm is the user's
\* answer to the "Confirm uninstall" question
UninstallSelected(p, confirm) ==
    /\ pc = "Ready"
    /\ writes < MaxWrites
    /\ p \in InstalledNames
    /\ IF ~IsDir(disk, p)
       THEN /\ installed_list' = refresh_installed_list(disk)
            /\ message_box' = "Missing"
            /\ UNCHANGED <<disk, sys_modules, pc, roots, idx, loaded, plugin_tabs,
                           loader_calls, status, writes, callVars>>
       ELSE IF ~confirm
       THEN /\ message_box' = "Confirm uninstall"
            /\ UNCHANGED <<disk, sys_modules, pc, roots, idx, loaded, plugin_tabs,
                           loader_calls, status, installed_list, writes, callVars>>
       ELSE /\ disk' = [disk EXCEPT ![p] = NoRoot]
            /\ message_box' = "Removed"
            /\ installed_list' = refresh_installed_list(disk')
            /\ writes' = writes + 1
            /\ BeginReload
            /\ UNCHANGED <<sys_modules, roots, idx, loaded, status, callVars>>

\* a root written outside the host (an exported plugin, a copied file)
ExternalWrite(r, img) ==
    /\ pc = "Ready"
    /\ writes < MaxWrites
    /\ disk' = [disk EXCEPT ![r] = img]
    /\ writes' = writes + 1
    /\ UNCHANGED <<sys_modules, pc, roots, idx, loaded, plugin_tabs, loader_calls,
                   status, installed_list, message_box, callVars>>

\* a root deleted outside the host
ExternalDelete(r) ==
    /\ pc = "Ready"
    /\ writes < MaxWrites
    /\ disk[r] # NoRoot
    /\ disk' = [disk EXCEPT ![r] = NoRoot]
    /\ writes' = writes + 1
    /\ UNCHANGED <<sys_modules, pc, roots, idx, loaded, plugin_tabs, loader_calls,
                   status, installed_list, message_box, callVars>>

Next ==
    \/ ReloadPlugins
    \/ Resolve
    \/ EvaluateRoot
    \/ Report
    \/ \E p \in Pkgs : \E m \in ItemManifests : InstallSelectedRemote(p, m)
    \/ \E p \in Pkgs : \E confirm \in BOOLEAN : UninstallSelected(p, confirm)
    \/ \E r \in AllRoots : \E img \in ImagesFor(r) : ExternalWrite(r, img)
    \/ \E r \in AllRoots : ExternalDelete(r)

Spec == Init /\ [][Next]_vars

\* a reload that has started runs to its end: the handler is synchronous
ReloadStep == Resolve \/ EvaluateRoot \/ Report

FairSpec == Spec /\ WF_vars(ReloadStep)

-----------------------------------------------------------------------------
(* Calls of the gate on arbitrary inputs.                                   *)

GateInit ==
    /\ HostInit
    /\ InstallIdle
    /\ ResolverIdle
    /\ ParseIdle
    /\ PathIdle /\ LoaderIdle /\ DocIdle
    /\ g_manifest \in ManifestValues
    /\ g_host \in HostValues
    /\ g_result = NotCalled

\* g_result = is_plugin_compatible(g_manifest, g_host)
CallGate ==
    /\ g_result = NotCalled
    /\ g_result' = is_plugin_compatible(g_manifest, g_host)
    /\ UNCHANGED <<g_manifest, g_host, hostVars, moreVars, installVars, resolverVars, parseVars>>

GateNext == CallGate

GateSpec == GateInit /\ [][GateNext]_vars

-----------------------------------------------------------------------------
(* Calls of install_package_from_github, step by step.                      *)

InstallInit ==
    /\ HostInit
    /\ GateIdle
    /\ ResolverIdle
    /\ ParseIdle
    /\ PathIdle /\ LoaderIdle /\ DocIdle
    /\ i_pkg \in PackageFolders
    /\ i_download \in Downloads
    /\ i_fs \in InitialStores
    /\ i_old = i_fs
    /\ i_tmp = TmpAbsent
    /\ i_pc = "called"
    /\ i_matched = <<>>
    /\ i_result = NotInstalled

InstallNext ==
    \/ Download
    \/ SelectMembers
    \/ RemoveOld
    \/ ExtractNext
    \/ ReturnDest

InstallSpec == InstallInit /\ [][InstallNext]_vars

-----------------------------------------------------------------------------
(* Calls of the Manifest Resolver in its two shapes.                        *)

ResolverInit ==
    /\ HostInit
    /\ GateIdle
    /\ InstallIdle
    /\ ParseIdle
    /\ PathIdle /\ LoaderIdle /\ DocIdle
    /\ r_shape \in {"local", "remote"}
    /\ r_plugin \in (IF r_shape = "local" THEN LocalSources ELSE RemoteSources)
    /\ r_manifest \in (IF r_shape = "local" THEN LocalSources ELSE RemoteSources)
    /\ r_result = NotResolved

\* r_result = read_local_manifest(folder)
ReadLocalManifest ==
    /\ r_shape = "local"
    /\ r_result = NotResolved
    /\ r_result' = ResolveLocal(r_plugin, r_manifest)
    /\ UNCHANGED <<r_shape, r_plugin, r_manifest, hostVars, moreVars, gateVars, installVars, parseVars>>

\* r_result = fetch_remote_manifest(name)
FetchRemoteManifest ==
    /\ r_shape = "remote"
    /\ r_result = NotResolved
    /\ r_result' = fetch_remote_manifest(r_plugin, r_manifest)
    /\ UNCHANGED <<r_shape, r_plugin, r_manifest, hostVars, moreVars, gateVars, installVars, parseVars>>

ResolverNext ==
    \/ ReadLocalManifest
    \/ FetchRemoteManifest

ResolverSpec == ResolverInit /\ [][ResolverNext]_vars

-----------------------------------------------------------------------------
(* Calls of _parse_version on two strings.                                  *)

V_2_0 == <<"2", ".", "0">>
V_1_9_9 == <<"1", ".", "9", ".", "9">>

\* strings pv_a is compared with, besides its zero-padded forms
CompareTexts == {V_2_0, V_1_9_9, V_0_2_0, V_10_0}

ParseInit ==
    /\ HostInit
    /\ GateIdle
    /\ InstallIdle
    /\ ResolverIdle
    /\ PathIdle /\ LoaderIdle /\ DocIdle
    /\ pv_a \in VersionStrings
    /\ pv_b \in {PadZeros(pv_a, k) : k \in 1..MaxPad} \cup CompareTexts
    /\ pv_result = NotParsed

\* pv_result = (_parse_version(pv_a), _parse_version(pv_b))
ParseVersions ==
    /\ pv_result = NotParsed
    /\ pv_result' = [called |-> TRUE, a |-> _parse_version(pv_a),
                      b |-> _parse_version(pv_b)]
    /\ UNCHANGED <<pv_a, pv_b, hostVars, moreVars, gateVars, installVars, resolverVars>>

ParseNext == ParseVersions

ParseSpec == ParseInit /\ [][ParseNext]_vars

-----------------------------------------------------------------------------
(* Compatibility Gate: claims C1-C5, checked under GateSpec.                *)

HostIsVersion == g_host.tag = "str"

\* the explicit list the gate is to decide from: the first key present
FirstPresentList(m) ==
    IF m.compatible_core_versions # Absent THEN m.compatible_core_versions
    ELSE m.compatible_versions

\* some listed version equals the host version
HostListed(host, list) ==
    \E i \in 1..Len(list.items) :
        TupleEq(_parse_version(host.s), _parse_version(PyStrOf(list.items[i])))

\* C1: whenever min_core_version is present (as a string), the gate returns
\* true exactly when parsed host >= parsed min_core_version, whatever lists
\* the manifest also carries.
C1_MinimumFormAloneDecides ==
    (/\ Called
     /\ IsMapping(g_manifest)
     /\ g_manifest.min_core_version.tag = "str"
     /\ HostIsVersion)
    => g_result = Returned(TupleGE(_parse_version(g_host.s),
                                   _parse_version(g_manifest.min_core_version.s)))

\* C2: without min_core_version, a manifest carrying an explicit list is
\* compatible exactly when the host version equals one listed version.
C2_ListMeansExactMembership ==
    (/\ Called
     /\ IsMapping(g_manifest)
     /\ g_manifest.min_core_version = Absent
     /\ FirstPresentList(g_manifest).tag = "list"
     /\ HostIsVersion)
    => g_result = Returned(HostListed(g_host, FirstPresentList(g_manifest)))

NoCompatibilityKey(m) ==
    /\ IsMapping(m)
    /\ m.min_core_version = Absent
    /\ m.compatible_core_versions = Absent
    /\ m.compatible_versions = Absent

\* C3: an empty manifest, or one that declares none of the three compatibility
\* keys, is compatible with every host version; other keys do not matter.
C3_NoKeysAlwaysCompatible ==
    (Called /\ (g_manifest = EmptyManifest \/ (NoCompatibilityKey(g_manifest) /\ HostIsVersion)))
    => g_result = Returned(TRUE)

C3_Witness ==
    /\ Called
    /\ NoCompatibilityKey(g_manifest)
    /\ g_manifest.other
    /\ g_host = PyStr(V_9_9_9)
    /\ g_result = Returned(TRUE)

\* C4: when compatible_core_versions is present (a list) and min_core_version
\* is absent, the result does not depend on compatible_versions.
C4_FirstPresentSynonymWins ==
    (/\ Called
     /\ IsMapping(g_manifest)
     /\ g_manifest.min_core_version = Absent
     /\ g_manifest.compatible_core_versions.tag = "list"
     /\ HostIsVersion)
    => g_result = is_plugin_compatible(
                      [g_manifest EXCEPT !.compatible_versions = Absent], g_host)

\* C5: the gate never raises and returns a boolean for any manifest value and
\* any host value; when its body hits an error the result is false.
C5_GateIsTotalAndFailsClosed ==
    Called =>
        /\ g_result.exc = FALSE
        /\ g_result.ret \in BOOLEAN
        /\ GateBody(g_manifest, g_host).exc => g_result.ret = FALSE

C5_Witness ==
    /\ Called
    /\ ~IsMapping(g_manifest)
    /\ GateBody(g_manifest, g_host).exc
    /\ g_result = Returned(FALSE)

-----------------------------------------------------------------------------
(* Plugin Host Session: claims C6-C10.                                      *)

\* the for loop of reload_plugins is running; the disk is as the resolver saw it
InLoop == pc = "PerRootEvaluation"
LoopDone == InLoop /\ idx > Len(roots)

\* roots whose loop iteration is over
EvaluatedRoots == {roots[i] : i \in 1..(idx - 1)}

TabsOf(kind, r) ==
    {i \in 1..Len(plugin_tabs) : plugin_tabs[i].kind = kind /\ plugin_tabs[i].root = r}

NumTabs(kind) == Cardinality({i \in 1..Len(plugin_tabs) : plugin_tabs[i].kind = kind})

FailsGate(r) ==
    IsDir(disk, r) /\ ~is_plugin_compatible(read_local_manifest(disk[r]), CoreVersion).ret

\* C6: in a reload, a directory root whose manifest fails the gate gets exactly
\* one disabled placeholder, carrying that manifest, and is never handed to
\* import_plugin_module.
C6_GatedRootsAreNotLoaded ==
    InLoop =>
        \A r \in EvaluatedRoots :
            FailsGate(r) =>
                /\ Cardinality(TabsOf("incompatible", r)) = 1
                /\ \A i \in TabsOf("incompatible", r) :
                       plugin_tabs[i].manifest = read_local_manifest(disk[r])
                /\ TabsOf("plugin", r) = {}
                /\ r \notin loader_calls

C6_Witness ==
    /\ LoopDone
    /\ \E r \in EvaluatedRoots : FailsGate(r) /\ TabsOf("incompatible", r) # {}
    /\ loader_calls # {}

\* C7: the local plugins directory and single-file roots are never gated: they
\* are always handed to import_plugin_module and never get a placeholder.
C7_OnlyStoreRootsAreGated ==
    InLoop =>
        \A r \in EvaluatedRoots :
            r \notin Pkgs => (r \in loader_calls /\ TabsOf("incompatible", r) = {})

\* the installed packages are one gate-failing and one gate-passing, loadable
\* package, and there is no other root
OneFailingOnePassing ==
    /\ ~IsDir(disk, LocalPlugins)
    /\ ~IsFile(disk, SoloFile)
    /\ \E p, q \in Pkgs :
          /\ p # q
          /\ FailsGate(p)
          /\ disk[q] \in {DirImage(JsonDoc(PassManifest), NoFile, NoFile,
                                   Code(v, "EditorWidget"), NoFile) : v \in Versions}

\* C8: when a reload reports, loaded = number of hosted plugin instances, the
\* number of tabs = loaded + placeholders, roots = number of roots the resolver
\* returned (gated ones included); one failing and one passing package give
\* loaded 1, roots 2, one placeholder.
C8_ReportedCounts ==
    [][Report =>
        /\ status'.loaded = NumTabs("plugin")
        /\ Len(plugin_tabs) = status'.loaded + NumTabs("incompatible")
        /\ \E order \in IterdirOrders :
              /\ roots = find_plugins_paths(disk, order)
              /\ status'.roots = Len(find_plugins_paths(disk, order))
        /\ \A i \in 1..Len(plugin_tabs) :
              plugin_tabs[i].kind = "plugin" =>
                  plugin_tabs[i].root \in loader_calls /\ ~FailsGate(plugin_tabs[i].root)
        /\ OneFailingOnePassing =>
              /\ status' = [loaded |-> 1, roots |-> 2]
              /\ NumTabs("incompatible") = 1
    ]_vars

C8_Witness ==
    /\ pc = "Ready"
    /\ OneFailingOnePassing
    /\ status = [loaded |-> 1, roots |-> 2]
    /\ NumTabs("incompatible") = 1
    /\ NumTabs("plugin") = 1

\* root r passes gating, loads and instantiates
Hostable(r) ==
    /\ ~FailsGate(r)
    /\ import_plugin_module(r, disk[r], sys_modules).mod # NoModule
    /\ Instantiate(import_plugin_module(r, disk[r], sys_modules).mod) = "tab"

C9_EvaluatedRootsSettled ==
    InLoop =>
        \A r \in EvaluatedRoots :
            /\ r \in loader_calls \/ TabsOf("incompatible", r) # {}
            /\ Hostable(r) <=> TabsOf("plugin", r) # {}

FreshModule(r) ==
    import_plugin_module(r, disk[r], [m \in DirRoots |-> NotImported]).mod

\* C10: every plugin hosted by a reload is the module defined by the content
\* that is on disk at that reload, never a module kept from an earlier one.
C10_HostedPluginIsFromDisk ==
    InLoop =>
        \A r \in EvaluatedRoots :
            \A i \in TabsOf("plugin", r) : plugin_tabs[i].module = FreshModule(r)

-----------------------------------------------------------------------------
(* Install and update from the host: claim C11.                             *)

\* the item manifests that fail the gate for this host
FailingItemManifests ==
    {m \in ItemManifests : ~is_plugin_compatible(m, CoreVersion).ret}

\* the message boxes shown after install_package_from_github was called
InstallerWasInvoked == {"Installed", "Install failed"}

\* C11: when the manifest of the selected remote item fails the gate, the
\* install/update handler does not call the installer and leaves the package
\* store, the installed list and the hosted plugins as they are.
C11_IncompatibleIsNeverInstalled ==
    [][\A p \in Pkgs : \A m \in FailingItemManifests :
          InstallSelectedRemote(p, m) =>
              /\ message_box' \notin InstallerWasInvoked
              /\ UNCHANGED <<disk, installed_list, plugin_tabs, sys_modules, pc>>
    ]_vars

C11_Witness ==
    /\ message_box = "Incompatible"
    /\ pc = "Ready"
    /\ NumTabs("plugin") > 0
    /\ \E p \in Pkgs : IsDir(disk, p)

-----------------------------------------------------------------------------
(* Installer: claims C12-C15, checked under InstallSpec.                    *)

InstallDone == i_pc = "done"
InstallReturned == i_result.kind = "returned"

\* '{root}/{package_name}/'
SubtreePrefix(package_name) == RepoRoot \o <<"/">> \o package_name \o <<"/">>

\* indices of the archive entries under '{root}/{package_name}/'
SubtreeMembers(members, package_name) ==
    {i \in 1..Len(members) : StartsWith(members[i].name, SubtreePrefix(package_name))}

\* the files and directories of the subtree, by their path below the package
\* folder; the entry of the folder itself has the empty path
SubtreeEntries(members, package_name) ==
    {Entry(PathParts(SubSeq(members[i].name, Len(SubtreePrefix(package_name)) + 1,
                            Len(members[i].name))),
           EndsWithSlash(members[i].name), members[i].data) :
        i \in SubtreeMembers(members, package_name)}

\* what the store holds at or below the folder of package_name
PackageCopy(fs, package_name) == {e \in fs : IsUnder(e.path, <<package_name>>)}

\* the same entries by their path below the folder
LocalEntries(fs, package_name) ==
    {Entry(SubSeq(e.path, 2, Len(e.path)), e.dir, e.data) :
        e \in {x \in PackageCopy(fs, package_name) : Len(x.path) > 1}}

OtherPackages(fs, package_name) == fs \ PackageCopy(fs, package_name)

\* the complete new copy: the folder and the subtree below it
NewCopy(members, package_name) ==
    {Entry(<<package_name>> \o e.path, e.dir, e.data) :
        e \in SubtreeEntries(members, package_name)}

\* C12: after a successful install the folder of the package holds exactly the
\* files and directories of the archive's subtree, with their data, nothing of
\* an earlier copy, and the rest of the store is as it was.
C12_InstallIsCleanReplace ==
    InstallReturned =>
        /\ LocalEntries(i_fs, i_pkg)
             = {e \in SubtreeEntries(i_download.members, i_pkg) : e.path # <<>>}
        /\ OtherPackages(i_fs, i_pkg) = OtherPackages(i_old, i_pkg)

C12_Witness ==
    /\ InstallReturned
    /\ i_pkg = PkgA
    /\ Exists(i_old, <<PkgA, PluginJson>>)
    /\ ~Exists(i_fs, <<PkgA, PluginJson>>)
    /\ Exists(i_fs, <<PkgA, LibDir, UtilPy>>)
    /\ Exists(i_fs, <<PkgAB, PluginPy>>)

\* C13: at every point of an install, and after one that failed, the store
\* holds for the package either the complete previous copy or the complete
\* new copy.
C13_ReplaceIsAtomic ==
    \/ PackageCopy(i_fs, i_pkg) = PackageCopy(i_old, i_pkg)
    \/ /\ i_download.kind = "zip"
       /\ PackageCopy(i_fs, i_pkg) = NewCopy(i_download.members, i_pkg)

NoEntryUnder(package_name) ==
    /\ i_download.kind = "zip"
    /\ i_download.members # <<>>
    /\ SubtreeMembers(i_download.members, package_name) = {}

EmptyZip == i_download.kind = "zip" /\ i_download.members = <<>>

\* C14: a package name without archive entry fails with the package-not-found
\* error, an archive without entries with the empty-archive error, and the
\* store is never changed by such a call.
C14_NotFoundLeavesStore ==
    /\ NoEntryUnder(i_pkg) =>
          /\ i_fs = i_old
          /\ InstallDone => i_result = RaisedError("PackageNotFound")
    /\ EmptyZip =>
          /\ i_fs = i_old
          /\ InstallDone => i_result = RaisedError("EmptyArchive")

C14_Witness ==
    /\ InstallDone
    /\ i_pkg = PkgA
    /\ NoEntryUnder(PkgA)
    /\ SubtreeMembers(i_download.members, PkgAB) # {}
    /\ Exists(i_old, <<PkgA, PluginPy>>)
    /\ Exists(i_fs, <<PkgA, PluginPy>>)
    /\ i_result = RaisedError("PackageNotFound")

-----------------------------------------------------------------------------
(* Manifest Resolver: claims C16-C18, checked under ResolverSpec.           *)

IsResolved == r_result # NotResolved

\* the manifest document a source holds when it is found, NoFile otherwise
DocumentOf(source) ==
    IF r_shape = "local" THEN source
    ELSE IF source.kind = "file" THEN source.content
    ELSE NoFile

Found(source) == DocumentOf(source) # NoFile

\* neither decoder makes anything of the document
Invalid(doc) == doc.kind # "json" /\ doc.yaml = YamlError

\* what the document decodes to, when it decodes
Decoded(doc) == IF doc.kind = "json" THEN doc.value ELSE doc.yaml

\* the source yields no manifest: not found, an IO failure, a decode failure
YieldsNothing(source) == ~Found(source) \/ Invalid(DocumentOf(source))

\* C16: the resolver never raises, in either call shape, and when every source
\* is missing or fails (IO, transport, status, decoding) it returns the empty
\* manifest.
C16_ResolverNeverRaises ==
    IsResolved =>
        /\ ~r_result.raised
        /\ (YieldsNothing(r_plugin) /\ YieldsNothing(r_manifest))
              => r_result.value = EmptyManifest

\* the first source found
FirstFound == IF Found(r_plugin) THEN r_plugin ELSE r_manifest

\* C17: what the resolver returns is a mapping; content that does not decode
\* to a mapping gives the empty mapping, which the gate accepts.
C17_ResolverReturnsMapping ==
    (IsResolved /\ ~r_result.raised) =>
        /\ IsMapping(r_result.value)
        /\ (/\ Found(FirstFound)
            /\ (Invalid(DocumentOf(FirstFound))
                  \/ ~IsMapping(Decoded(DocumentOf(FirstFound)))))
              => /\ r_result.value = EmptyManifest
                 /\ is_plugin_compatible(r_result.value, CoreVersion) = Returned(TRUE)

\* C18: plugin.json is tried first; when it is found nothing else is tried,
\* and if its content is invalid the result is the empty manifest whatever
\* manifest.json holds; manifest.json is tried only when plugin.json is not
\* found, and then decides.
C18_FirstFoundFileWins ==
    IsResolved =>
        /\ r_result.consulted[1] = "plugin.json"
        /\ Found(r_plugin) =>
              /\ r_result.consulted = <<"plugin.json">>
              /\ ~r_result.raised
              /\ Invalid(DocumentOf(r_plugin)) => r_result.value = EmptyManifest
              /\ ~Invalid(DocumentOf(r_plugin))
                    => r_result.value = Decoded(DocumentOf(r_plugin))
        /\ (Len(r_result.consulted) > 1) =>
              /\ r_result.consulted = <<"plugin.json", "manifest.json">>
              /\ ~Found(r_plugin)
        /\ (~Found(r_plugin) /\ ~r_result.raised /\ Found(r_manifest)
              /\ ~Invalid(DocumentOf(r_manifest)))
              => r_result.value = Decoded(DocumentOf(r_manifest))

C18_Witness ==
    /\ IsResolved
    /\ r_shape = "local"
    /\ r_plugin = Garbage
    /\ r_manifest = JsonDoc(FailManifest)
    /\ r_result.value = EmptyManifest
    /\ r_result.consulted = <<"plugin.json">>

-----------------------------------------------------------------------------
(* Version Comparator: claims C19-C20, checked under ParseSpec.             *)

Parsed == pv_result.called

\* digits separated by dots: 1.2, 0.2.0, 10
IsDottedVersion(v) ==
    \A i \in 1..Len(SplitDot(v, <<>>)) : AllDigits(SplitDot(v, <<>>)[i])

\* pv_b is pv_a followed by ".0" segments
DiffersByTrailingZeros == \E k \in 1..MaxPad : pv_b = PadZeros(pv_a, k)

\* C19: two dotted version strings that differ only by trailing ".0" segments
\* parse to versions that compare equal: ==, and neither < nor >.
C19_TrailingZerosCompareEqual ==
    (Parsed /\ IsDottedVersion(pv_a) /\ DiffersByTrailingZeros) =>
        /\ TupleEq(pv_result.a, pv_result.b)
        /\ ~TupleLess(pv_result.a, pv_result.b)
        /\ ~TupleLess(pv_result.b, pv_result.a)

HasDigit(seg) == \E i \in 1..Len(seg) : IsDigit(seg[i])

\* C20: for any string, _parse_version yields one integer per segment, 0 for a
\* segment that is not a number, the digits' value for a segment of digits,
\* never a negative integer, and tuples that order lexicographically
\* ('2.0' > '1.9.9').
C20_ParseIsTotalAndNonNegative ==
    Parsed =>
        LET segs == SplitDot(pv_a, <<>>)
        IN  /\ Len(pv_result.a) = Len(segs)
            /\ \A i \in 1..Len(segs) :
                  /\ pv_result.a[i] \in Int
                  /\ pv_result.a[i] >= 0
                  /\ ~HasDigit(segs[i]) => pv_result.a[i] = 0
                  /\ AllDigits(segs[i]) => pv_result.a[i] = DigitsValue(segs[i], 0)
            /\ (pv_a = V_2_0 /\ pv_b = V_1_9_9) => TupleLess(pv_result.b, pv_result.a)

-----------------------------------------------------------------------------
(* Plugin Path Resolver on directory listings: the entries of the working  *)
(* directory and of the store as iterdir() lists them, symbolic links       *)
(* included.  An entry has a place, a name, the type is_dir()/is_file()      *)
(* report (both follow links) and the absolute path resolve() gives.        *)

MaxCwdEntries == 3
MaxStoreEntries == 2

EndsWith(s, suffix) ==
    Len(s) >= Len(suffix) /\ SubSeq(s, Len(s) - Len(suffix) + 1, Len(s)) = suffix

PluginsName == <<"p", "l", "u", "g", "i", "n", "s">>
PluginSuffix == <<"_", "p", "l", "u", "g", "i", "n", ".", "p", "y">>

PathEntry(at, name, type, resolved) ==
    [at |-> at, name |-> name, type |-> type, resolved |-> resolved]
\* an entry that is no symbolic link resolves to its own path
Own(at, name, type) == PathEntry(at, name, type, <<at, name>>)
\* what the symbolic links of the model point to
SharedDir == <<"opt", "shared">>
SharedFile == <<"opt", "shared_plugin.py">>

CwdPool ==
    { Own("cwd", PluginsName, "dir"),
      PathEntry("cwd", PluginsName, "dir", SharedDir),
      Own("cwd", PluginsName, "file"),
      Own("cwd", <<"a">> \o PluginSuffix, "file"),
      PathEntry("cwd", <<"a">> \o PluginSuffix, "file", SharedFile),
      Own("cwd", <<"b">> \o PluginSuffix, "file"),
      PathEntry("cwd", <<"b">> \o PluginSuffix, "file", SharedFile),
      Own("cwd", <<"c">> \o PluginSuffix, "dir"),
      Own("cwd", <<"n", "o", "t", "e", "s">>, "file") }

StorePool ==
    { Own("store", <<"a", "l", "p", "h", "a">>, "dir"),
      PathEntry("store", <<"a", "l", "p", "h", "a">>, "dir", SharedDir),
      Own("store", <<"b", "e", "t", "a">>, "dir"),
      PathEntry("store", <<"b", "e", "t", "a">>, "dir", SharedDir),
      Own("store", <<"r", "e", "a", "d", "m", "e">>, "file") }

\* the listings of at most n entries of a pool: a directory holds a name once
Listings(pool, n) ==
    {l \in UNION {[1..k -> pool] : k \in 0..n} :
        \A i, j \in DOMAIN l : i # j => l[i].name # l[j].name}

\* the mutation of RootKey: the path as it is written, links not followed
RootKeyUnresolved(r) == <<r.at, r.name>>

\* key = str(r.resolve())
RootKey(r) == r.resolved

\* the loop over roots: seen holds the keys, uniq the roots kept so far
RECURSIVE UniqRoots(_, _, _)
UniqRoots(rs, seen, uniq) ==
    IF rs = <<>> THEN uniq
    ELSE IF RootKey(Head(rs)) \in seen THEN UniqRoots(Tail(rs), seen, uniq)
    ELSE UniqRoots(Tail(rs), seen \cup {RootKey(Head(rs))}, Append(uniq, Head(rs)))

\* Path.cwd() / "plugins", if it is a directory
LocalPluginsRoot(cwd) ==
    SelectSeq(cwd, LAMBDA e : e.name = PluginsName /\ e.type = "dir")

\* every subdirectory of the store, as iterdir() lists them
StoreRoots(store) == SelectSeq(store, LAMBDA e : e.type = "dir")

\* every file of the working directory whose name ends with _plugin.py
SingleFileRoots(cwd) ==
    SelectSeq(cwd, LAMBDA e : e.type = "file" /\ EndsWith(e.name, PluginSuffix))

\* find_plugins_paths on the two listings
find_plugins_paths_listed(cwd, store) ==
    UniqRoots(LocalPluginsRoot(cwd) \o StoreRoots(store) \o SingleFileRoots(cwd),
              {}, <<>>)

PathInit ==
    /\ p_cwd \in Listings(CwdPool, MaxCwdEntries)
    /\ p_store \in Listings(StorePool, MaxStoreEntries)
    /\ p_result = NotListed
    /\ HostInit
    /\ GateIdle /\ InstallIdle /\ ResolverIdle /\ ParseIdle
    /\ LoaderIdle /\ DocIdle

FindPluginsPaths ==
    /\ p_result = NotListed
    /\ p_result' = find_plugins_paths_listed(p_cwd, p_store)
    /\ UNCHANGED <<p_cwd, p_store, hostVars, gateVars, installVars, resolverVars,
                   parseVars, loaderVars, docVars>>

PathNext == FindPluginsPaths

PathSpec == PathInit /\ [][PathNext]_vars

\* ---- C21 ----------------------------------------------------------------
\* the class of a candidate root: the local plugins directory, a directory
\* of the store, a single-file plugin of the working directory
RootClass(e) ==
    IF e.at = "store" THEN 2 ELSE IF e.type = "dir" THEN 1 ELSE 3

\* the candidates of a call, read off the two listings
IsCandidate(e) ==
    \/ \E i \in DOMAIN p_cwd :
         /\ p_cwd[i] = e
         /\ \/ e.name = PluginsName /\ e.type = "dir"
            \/ e.type = "file" /\ EndsWith(e.name, PluginSuffix)
    \/ \E i \in DOMAIN p_store : p_store[i] = e /\ e.type = "dir"

\* the place of an entry in the listing it comes from
ListedAt(e) ==
    IF e.at = "store" THEN CHOOSE i \in DOMAIN p_store : p_store[i] = e
    ELSE CHOOSE i \in DOMAIN p_cwd : p_cwd[i] = e

\* candidate e is seen before candidate f
SeenBefore(e, f) ==
    \/ RootClass(e) < RootClass(f)
    \/ RootClass(e) = RootClass(f) /\ ListedAt(e) < ListedAt(f)

Candidates == {e \in CwdPool \cup StorePool : IsCandidate(e)}

\* C21: find_plugins_paths returns the local plugins directory, then the
\* directories of the store, then the *_plugin.py files of the working
\* directory; no two returned roots resolve to the same absolute path, of the
\* candidates that resolve to one path the first seen is the one kept, and
\* the kept roots stay in the order they were seen in.
C21_RootsOrderedAndUnique ==
    p_result # NotListed =>
        /\ \A i \in DOMAIN p_result : p_result[i] \in Candidates
        /\ \A i, j \in DOMAIN p_result :
             i < j => /\ SeenBefore(p_result[i], p_result[j])
                      /\ p_result[i].resolved # p_result[j].resolved
        /\ \A e \in Candidates :
             \E i \in DOMAIN p_result :
                /\ p_result[i].resolved = e.resolved
                /\ p_result[i] = e \/ SeenBefore(p_result[i], e)

\* a call that found roots of the three classes and dropped an alias
C21_Witness ==
    /\ p_result # NotListed
    /\ \A c \in {1, 2, 3} : \E i \in DOMAIN p_result : RootClass(p_result[i]) = c
    /\ \E e \in Candidates : \A i \in DOMAIN p_result : p_result[i] # e

-----------------------------------------------------------------------------
(* Dynamic Loader, one call of import_plugin_module on its own: a root with *)
(* every combination of entry files, each sound or raising when executed,   *)
(* and sys.modules with or without a module of the root's name.             *)

LoaderRoot == "alpha"

InitSources == {NoFile, Code(1, "create_editor"), Code(1, "import_raises")}
PluginSources == {NoFile, Code(1, "EditorWidget"), Code(1, "import_raises")}
NamePluginSources == {NoFile, Code(2, "EditorWidget"), Code(2, "import_raises")}

LoaderImages ==
    {DirImage(NoFile, NoFile, init, plug, nplug) :
        init \in InitSources, plug \in PluginSources, nplug \in NamePluginSources}
    \cup FileImages

\* a module of the root's name imported earlier
CachedModules == {NotImported, Code(2, "create_editor"), Code(1, "no_entry")}

LoaderInit ==
    /\ l_img \in LoaderImages
    /\ l_cached \in CachedModules
    /\ l_result = NotLoaded
    /\ HostInit
    /\ GateIdle /\ InstallIdle /\ ResolverIdle /\ ParseIdle
    /\ PathIdle /\ DocIdle

ImportPluginModule ==
    /\ l_result = NotLoaded
    /\ l_result' = import_plugin_module(LoaderRoot, l_img,
                                        [r \in {LoaderRoot} |-> l_cached])
    /\ UNCHANGED <<l_img, l_cached, hostVars, gateVars, installVars, resolverVars,
                   parseVars, pathVars, docVars>>

LoaderNext == ImportPluginModule

LoaderSpec == LoaderInit /\ [][LoaderNext]_vars

\* ---- C22 ----------------------------------------------------------------
\* the package import of a directory root is attempted and succeeds
PackageImports ==
    /\ l_img.type = "dir"
    /\ l_img.init_py # NoFile
    /\ l_cached # NotImported \/ l_img.init_py.entry # "import_raises"

\* the entry files of a directory root that exist, in the order of `candidates`
EntryFiles ==
    SelectSeq(<<l_img.plugin_py, l_img.name_plugin_py, l_img.init_py>>,
              LAMBDA c : c # NoFile)

\* what executing one file yields: the module, or nothing when it raises
ModuleOf(c) == IF c.entry = "import_raises" THEN NoModule ELSE c

-----------------------------------------------------------------------------
(* Config Document: ConfigFile over one text file.  The file is a text, a   *)
(* sequence of characters; the buffers are sequences of lines; backups are   *)
(* kept by the timestamp in their name.                                      *)

MaxDocLines == 2
MaxEdits == 1
MaxSaves == 1
MaxClock == 1

NL == "\n"

\* f.read().splitlines(): a line ends at a line break or at the end of the
\* text; a text that ends with a line break has no further line after it
RECURSIVE SplitLines(_, _)
SplitLines(s, cur) ==
    IF s = <<>> THEN (IF cur = <<>> THEN <<>> ELSE <<cur>>)
    ELSE IF Head(s) = NL THEN <<cur>> \o SplitLines(Tail(s), <<>>)
    ELSE SplitLines(Tail(s), Append(cur, Head(s)))

read_file_lines(text) == SplitLines(text, <<>>)

\* "\n".join(lines)
RECURSIVE JoinLines(_)
JoinLines(lines) ==
    IF lines = <<>> THEN <<>>
    ELSE IF Len(lines) = 1 THEN lines[1]
    ELSE lines[1] \o <<NL>> \o JoinLines(Tail(lines))

\* the text write_file_lines writes: the joined lines, a line break added
\* when the text does not end with one
write_file_lines(lines) ==
    IF JoinLines(lines) # <<>> /\ JoinLines(lines)[Len(JoinLines(lines))] = NL
    THEN JoinLines(lines)
    ELSE JoinLines(lines) \o <<NL>>

\* the mutation of make_backup: no copy is made
make_backup_skipped(backups, ts, text) == backups

\* shutil.copy2(path, f"{path}.bak.{ts}"): the backup named by the second ts
\* holds the text, whatever it held before
make_backup(backups, ts, text) ==
    [t \in (DOMAIN backups) \cup {ts} |-> IF t = ts THEN text ELSE backups[t]]

\* list.insert(idx, x): the index is clamped to the list
ListInsert(lines, index, x) ==
    LET at == IF index < 0
              THEN (IF Len(lines) + index < 0 THEN 0 ELSE Len(lines) + index)
              ELSE IF index > Len(lines) THEN Len(lines) ELSE index
    IN  SubSeq(lines, 1, at) \o <<x>> \o SubSeq(lines, at + 1, Len(lines))

\* the lines a caller writes into the buffer
LineValues == {<<"x">>, <<>>}

\* what the file holds when the document is opened, or after another program
\* wrote it
FileTexts ==
    { <<>>, <<"a", NL>>, <<"a">>, <<"a", NL, NL>>, <<"a", NL, "k", NL>> }

Edited == [op |-> "edit"]

DocInit ==
    /\ c_file \in FileTexts
    /\ c_orig = read_file_lines(c_file)
    /\ c_lines = read_file_lines(c_file)
    /\ c_backups = <<>>
    /\ c_clock = 0
    /\ c_saves = 0
    /\ c_edits = 0
    /\ c_last = NoOperation
    /\ HostInit
    /\ GateIdle /\ InstallIdle /\ ResolverIdle /\ ParseIdle
    /\ PathIdle /\ LoaderIdle

DocRest == <<hostVars, gateVars, installVars, resolverVars, parseVars, pathVars,
             loaderVars>>

AppendLine(new_line) ==
    /\ c_edits < MaxEdits
    /\ Len(c_lines) < MaxDocLines
    /\ c_lines' = Append(c_lines, new_line)
    /\ c_edits' = c_edits + 1
    /\ c_last' = Edited
    /\ UNCHANGED <<c_file, c_orig, c_backups, c_clock, c_saves, DocRest>>

\* replace_line: an index outside the buffer raises IndexError
ReplaceLine(index, new_line) ==
    /\ c_edits < MaxEdits
    /\ c_lines' = IF index \in 0..(Len(c_lines) - 1)
                  THEN [c_lines EXCEPT ![index + 1] = new_line]
                  ELSE c_lines
    /\ c_edits' = c_edits + 1
    /\ c_last' = Edited
    /\ UNCHANGED <<c_file, c_orig, c_backups, c_clock, c_saves, DocRest>>

InsertLine(index, new_line) ==
    /\ c_edits < MaxEdits
    /\ Len(c_lines) < MaxDocLines
    /\ c_lines' = ListInsert(c_lines, index, new_line)
    /\ c_edits' = c_edits + 1
    /\ c_last' = Edited
    /\ UNCHANGED <<c_file, c_orig, c_backups, c_clock, c_saves, DocRest>>

\* save(backup): the backup, then the write, then load(); copied tells
\* whether shutil.copy2 succeeded: when it raises nothing is written
Save(backup, copied) ==
    /\ c_saves < MaxSaves
    /\ c_saves' = c_saves + 1
    /\ IF backup /\ ~copied
       THEN /\ c_last' = [op |-> "save", backup |-> backup, raised |-> TRUE,
                          lines |-> c_lines, text |-> c_file, ts |-> c_clock]
            /\ UNCHANGED <<c_file, c_orig, c_lines, c_backups>>
       ELSE /\ c_backups' = IF backup THEN make_backup(c_backups, c_clock, c_file)
                            ELSE c_backups
            /\ c_file' = write_file_lines(c_lines)
            /\ c_orig' = read_file_lines(c_file')
            /\ c_lines' = read_file_lines(c_file')
            /\ c_last' = [op |-> "save", backup |-> backup, raised |-> FALSE,
                          lines |-> c_lines, text |-> c_file, ts |-> c_clock]
    /\ UNCHANGED <<c_clock, c_edits, DocRest>>

DiscardChanges ==
    /\ c_orig' = read_file_lines(c_file)
    /\ c_lines' = read_file_lines(c_file)
    /\ c_last' = [op |-> "discard"]
    /\ UNCHANGED <<c_file, c_backups, c_clock, c_saves, c_edits, DocRest>>

\* another program writes the file while the document is open
ExternalEdit(text) ==
    /\ c_last # [op |-> "external"]
    /\ text # c_file
    /\ c_file' = text
    /\ c_last' = [op |-> "external"]
    /\ UNCHANGED <<c_orig, c_lines, c_backups, c_clock, c_saves, c_edits, DocRest>>

\* a second passes
Tick ==
    /\ c_clock < MaxClock
    /\ c_clock' = c_clock + 1
    /\ UNCHANGED <<c_file, c_orig, c_lines, c_backups, c_saves, c_edits, c_last,
                   DocRest>>

DocNext ==
    \/ \E l \in LineValues : AppendLine(l)
    \/ \E i \in 0..MaxDocLines, l \in LineValues : ReplaceLine(i, l)
    \/ \E i \in (0 - 1)..MaxDocLines, l \in LineValues : InsertLine(i, l)
    \/ \E backup \in BOOLEAN, copied \in BOOLEAN : Save(backup, copied)
    \/ DiscardChanges
    \/ \E text \in FileTexts : ExternalEdit(text)
    \/ Tick

DocSpec == DocInit /\ [][DocNext]_vars

\* ---- C23 ----------------------------------------------------------------
SaveReturned == c_last.op = "save" /\ ~c_last.raised
SaveRaised == c_last.op = "save" /\ c_last.raised

\* the backup of the last save exists and holds the text the file had
BackupHoldsOldText ==
    /\ c_last.ts \in DOMAIN c_backups
    /\ c_backups[c_last.ts] = c_last.text

\* C23 as stated: every save writes a timestamped backup that holds the text
\* the file had before the save.
C23_SaveAlwaysBacksUp == SaveReturned => BackupHoldsOldText

\* C23: save with backup on (the default) writes a timestamped backup that
\* holds the text the file had, before the file is overwritten: when the copy
\* fails the file is not written; then both the original snapshot and the
\* working buffer are the lines of the file as it is now; a buffer whose last
\* line was 'x' gives a file whose last line is 'x'.  save(backup=False)
\* writes the file without a backup.
C23_SaveBacksUpThenReloads ==
    /\ (SaveReturned /\ c_last.backup) => BackupHoldsOldText
    /\ SaveRaised => c_file = c_last.text
    /\ SaveReturned =>
          /\ c_orig = read_file_lines(c_file)
          /\ c_lines = read_file_lines(c_file)
          /\ (c_last.lines # <<>> /\ c_last.lines[Len(c_last.lines)] = <<"x">>) =>
                c_lines[Len(c_lines)] = <<"x">>

\* append_line('x') then save(): the file changed, its last line is 'x' and
\* the backup holds the old text
C23_Witness ==
    /\ SaveReturned
    /\ c_last.backup
    /\ c_last.lines # <<>>
    /\ c_last.lines[Len(c_last.lines)] = <<"x">>
    /\ c_last.text # c_file
    /\ c_backups[c_last.ts] = c_last.text

\* ---- C26 ----------------------------------------------------------------
\* C26: saving does not alter the content of the document: the working lines
\* after save() are the working lines immediately before it, an empty buffer
\* and a buffer whose last line is empty included.
C26_SaveKeepsLines == SaveReturned => c_lines = c_last.lines

-----------------------------------------------------------------------------
(* install_package_from_github on archives whose entry names are chosen by  *)
(* whoever made the archive: names with ".." components and names whose      *)
(* part below the package folder is an absolute path.                        *)

PkgB == <<"b">>
EtcDir == <<"e", "t", "c">>

\* R/a/../b/p.py: lands in the folder of another package
SiblingMember == FileMember(<<RepoRoot, PkgA, Up, PkgB, PluginPy>>, "evil-b")
\* R/a/../../p.py: lands above PACKAGES_DIR
AboveStoreMember == FileMember(<<RepoRoot, PkgA, Up, Up, PluginPy>>, "evil-up")
\* R/a//etc/p.py: what follows the prefix is the absolute path /etc/p.py
AbsoluteMember == FileMember(<<RepoRoot, PkgA, <<>>, EtcDir, PluginPy>>, "evil-abs")

CraftedSnapshots ==
    {<<DirMember(<<RepoRoot>>)>> \o x \o <<h>> :
        x \in {<<DirMember(<<RepoRoot, PkgA>>)>>, SubtreeA1},
        h \in {SiblingMember, AboveStoreMember, AbsoluteMember}}

CraftedInit ==
    /\ HostInit
    /\ GateIdle
    /\ ResolverIdle
    /\ ParseIdle
    /\ PathIdle /\ LoaderIdle /\ DocIdle
    /\ i_pkg = PkgA
    /\ i_download \in {Zip(ms) : ms \in CraftedSnapshots}
    /\ i_fs \in InitialStores
    /\ i_old = i_fs
    /\ i_tmp = TmpAbsent
    /\ i_pc = "called"
    /\ i_matched = <<>>
    /\ i_result = NotInstalled

CraftedInstallSpec == CraftedInit /\ [][InstallNext]_vars

\* ---- C24 ----------------------------------------------------------------
\* the entries of the file system the call has created, overwritten or deleted
Touched == (i_fs \ i_old) \cup (i_old \ i_fs)

\* C24: every file and directory that install creates, overwrites or deletes
\* lies inside PACKAGES_DIR/<package_name>, whatever the names of the archive
\* entries, names with ".." segments or an absolute remainder included.
C24_InstallStaysInsidePackage ==
    \A e \in Touched : IsUnder(e.path, Dest(i_pkg))

\* ---- C25 ----------------------------------------------------------------
\* list_installed_packages: the names of the directories directly below
\* PACKAGES_DIR (the order sorted() gives them is left out)
ListedPackages(fs) == {e.path[1] : e \in {x \in fs : Len(x.path) = 1 /\ x.dir}}

\* the subtree of the package in the archive is its directory entry only
DirectoryEntryOnly ==
    /\ i_download.kind = "zip"
    /\ \A k \in DOMAIN i_download.members :
          StartsWith(i_download.members[k].name, SubtreePrefix(i_pkg)) =>
              i_download.members[k].name = SubtreePrefix(i_pkg)

\* C25: when install returns, the path returned is PACKAGES_DIR/<package_name>,
\* it is a directory that exists, and list_installed_packages reports the
\* package; this includes an archive whose subtree for the package is the
\* directory entry alone, and then a copy installed before is still there or
\* replaced.
C25_ReturnedPackageExists ==
    InstallReturned =>
        /\ i_result.path = <<i_pkg>>
        /\ \E e \in i_fs : e.path = <<i_pkg>> /\ e.dir
        /\ i_pkg \in ListedPackages(i_fs)
        /\ (DirectoryEntryOnly /\ Exists(i_old, <<i_pkg>>)) => Exists(i_fs, <<i_pkg>>)

-----------------------------------------------------------------------------
(* The host session with the "open folder" button of the package tab.       *)

\* open_selected_folder for the installed-list entry p; launched tells whether
\* os.execvp found and started xdg-open.  execvp does not return when it
\* succeeds: the program of the process is then xdg-open, and the window,
\* the tabs and the modules of the host are gone with its memory
OpenSelectedFolder(p, launched) ==
    /\ pc = "Ready"
    /\ p \in InstalledNames
    /\ IF ~IsDir(disk, p)
       THEN /\ message_box' = "Missing"
            /\ UNCHANGED <<disk, sys_modules, pc, roots, idx, loaded, plugin_tabs,
                           loader_calls, status, installed_list, writes, callVars>>
       ELSE IF launched
       THEN /\ pc' = "Replaced"
            /\ sys_modules' = [r \in DirRoots |-> NotImported]
            /\ roots' = <<>>
            /\ idx' = 1
            /\ loaded' = 0
            /\ plugin_tabs' = <<>>
            /\ loader_calls' = {}
            /\ status' = NoStatus
            /\ installed_list' = <<>>
            /\ message_box' = NoMessage
            /\ UNCHANGED <<disk, writes, callVars>>
       ELSE /\ message_box' = "Open folder"
            /\ UNCHANGED <<disk, sys_modules, pc, roots, idx, loaded, plugin_tabs,
                           loader_calls, status, installed_list, writes, callVars>>

SessionNext ==
    \/ Next
    \/ \E p \in Pkgs : \E launched \in BOOLEAN : OpenSelectedFolder(p, launched)

SessionSpec == Init /\ [][SessionNext]_vars

\* ---- C27 ----------------------------------------------------------------
\* C27: no operation of the package tab ends the host session: after any
\* sequence of reload, install, uninstall and open-folder operations, failed
\* or not, the host process is still running the host.
C27_HostKeepsRunning == pc # "Replaced"

====
